---- MODULE Spec2Model ----
(***************************************************************************)
(* A model of assembly2.py: the Assembly facade, its overlap graph          *)
(* (add_edges_from_match, Assembly.__init__), the enumeration of linear and *)
(* circular assemblies (validate_assembly, remove_subassemblies,            *)
(* get_linear_assemblies, get_circular_assemblies) and the materialisation  *)
(* of an assembly into a sequence (assemble).                               *)
(*                                                                         *)
(* Sequences are tuples of one-letter strings.  A Python list or tuple is a *)
(* TLA+ sequence; Python's 0-based positions are kept in the data (the      *)
(* locations) and shifted by one only where a TLA+ sequence is indexed.     *)
(***************************************************************************)
EXTENDS Integers, Sequences, FiniteSets, TLC

VARIABLES
    fragments,           \* self.fragments: the tuple of input Dseqrecords
    limit,               \* self.limit
    matches,             \* what self.algorithm answered at construction
    use_fragment_order,  \* self.use_fragment_order
    use_all_fragments,   \* self.use_all_fragments
    G,                   \* self.G: the MultiDiGraph
    op,                  \* the public operation that returned last
    result,              \* the list of assemblies the last enumeration returned
    product              \* the list of Dseqrecords the last materialisation returned

vars == <<fragments, limit, matches, use_fragment_order, use_all_fragments,
          G, op, result, product>>

\* The largest number of input fragments the model constructs a facade from.
MaxFrags == 3

\* The largest number of raw matches the matcher answers with, over all pairs.
MaxMatches == 2

\* The mock nodes 'begin' and 'end' of the linear search.  networkx names them
\* by these two strings; here they are two integers that are no signed
\* fragment index, so that every node of a graph is an integer.
Begin == 0

End == 1000

\* Python's None where a node, a key or a location is expected:
\* (None, assembly[0][0], None) and (assembly[-1][1], None, None).
NoneNode == 2000

NoneKey == "None"

NoneLocation == [parts |-> <<>>]

\* The key networkx gives the first edge added between two nodes without a
\* key (the integer 0), written as text like the other keys.
AnchorKey == "0"

Min(a, b) == IF a < b THEN a ELSE b

Max(a, b) == IF a > b THEN a ELSE b

Abs(x) == IF x < 0 THEN 0 - x ELSE x

Range(s) == {s[k] : k \in 1..Len(s)}

\* s[::-1]
Reversed(s) == [k \in 1..Len(s) |-> s[Len(s) + 1 - k]]

\* The elements of a finite set, listed in one order.
RECURSIVE SetToSeq(_)
SetToSeq(S) ==
    IF S = {} THEN <<>>
    ELSE LET x == CHOOSE y \in S : TRUE IN <<x>> \o SetToSeq(S \ {x})

\* The sum of a sequence of integers.
RECURSIVE Sum(_)
Sum(s) == IF s = <<>> THEN 0 ELSE Head(s) + Sum(Tail(s))

\* The subsets of S with at most k elements.
RECURSIVE SubsetsUpTo(_, _)
SubsetsUpTo(S, k) ==
    IF k = 0 THEN {{}}
    ELSE LET P == SubsetsUpTo(S, k - 1) IN P \cup {p \cup {a} : p \in P, a \in S}

(***************************************************************************)
(* Sequences of symbols: str.upper, Bio.Seq.reverse_complement, slicing.    *)
(***************************************************************************)

\* str.upper on one symbol.
Upper(c) ==
    CASE c = "a" -> "A" [] c = "c" -> "C" [] c = "g" -> "G" [] c = "t" -> "T"
      [] OTHER -> c

\* str(seq).upper()
upper(s) == [k \in 1..Len(s) |-> Upper(s[k])]

\* The complement of one symbol; the case is kept.
Complement(c) ==
    CASE c = "A" -> "T" [] c = "T" -> "A" [] c = "C" -> "G" [] c = "G" -> "C"
      [] c = "a" -> "t" [] c = "t" -> "a" [] c = "c" -> "g" [] c = "g" -> "c"

\* reverse_complement of a sequence of symbols.
reverse_complement(s) == [k \in 1..Len(s) |-> Complement(s[Len(s) + 1 - k])]

\* A Python slice bound, normalised against a sequence of length n: a
\* negative bound counts from the end, and every bound is clamped to 0..n.
SliceBound(b, n) == IF b < 0 THEN Max(n + b, 0) ELSE Min(b, n)

\* s[start:stop]
Slice(s, start, stop) ==
    LET lo == SliceBound(start, Len(s))
        hi == SliceBound(stop, Len(s))
    IN  IF lo >= hi THEN <<>> ELSE SubSeq(s, lo + 1, hi)

\* s[start:], which is s[start:None]
SliceFrom(s, start) ==
    LET lo == SliceBound(start, Len(s))
    IN  IF lo >= Len(s) THEN <<>> ELSE SubSeq(s, lo + 1, Len(s))

\* s[:stop]
SliceTo(s, stop) ==
    LET hi == SliceBound(stop, Len(s))
    IN  IF hi <= 0 THEN <<>> ELSE SubSeq(s, 1, hi)

\* Dseqrecord(seq): a linear record without features unless told otherwise.
Dseqrecord(seq, features, circular) ==
    [seq |-> seq, features |-> features, circular |-> circular]

\* record[start:stop] and record[start:]: the fragments carry no features,
\* and a slice of a record is linear.
RecordSlice(rec, start, stop) == Dseqrecord(Slice(rec.seq, start, stop), <<>>, FALSE)

RecordSliceFrom(rec, start) == Dseqrecord(SliceFrom(rec.seq, start), <<>>, FALSE)

\* record.reverse_complement()
RecordReverseComplement(rec) ==
    Dseqrecord(reverse_complement(rec.seq), <<>>, rec.circular)

(***************************************************************************)
(* Locations: SimpleLocation, its parts, its length, its text, _flip and    *)
(* pydna's shift_location.                                                  *)
(***************************************************************************)

\* SimpleLocation(start, end, strand): a location of one part.
SimpleLocation(start, end, strand) ==
    [parts |-> << [start |-> start, end |-> end, strand |-> strand] >>]

\* len(location)
LocationLen(loc) == Sum([k \in 1..Len(loc.parts) |-> loc.parts[k].end - loc.parts[k].start])

\* str(part): [start:end](strand)
PartStr(p) ==
    "[" \o ToString(p.start) \o ":" \o ToString(p.end) \o "]"
        \o (IF p.strand = 1 THEN "(+)" ELSE "(-)")

\* str(location): a location of several parts is a join{...} of them.
RECURSIVE JoinParts(_)
JoinParts(ps) ==
    IF Len(ps) = 1 THEN PartStr(ps[1])
    ELSE PartStr(ps[1]) \o ", " \o JoinParts(Tail(ps))

LocationStr(loc) ==
    IF Len(loc.parts) = 1 THEN PartStr(loc.parts[1])
    ELSE "join{" \o JoinParts(loc.parts) \o "}"

\* shift_location(location, shift, lim) for a location of one part: both ends
\* move modulo lim (an end of 0 is lim), and a location that then runs past
\* lim is split at the origin.
shift_location(loc, shift, lim) ==
    LET p == loc.parts[1]
        new_start == (p.start + shift) % lim
        e == (p.end + shift) % lim
        new_end == IF e = 0 THEN lim ELSE e
    IN  IF new_start < new_end
        THEN SimpleLocation(new_start, new_end, p.strand)
        ELSE [parts |-> << [start |-> new_start, end |-> lim, strand |-> p.strand],
                           [start |-> 0, end |-> new_end, strand |-> p.strand] >>]

\* location._flip(length): each part mapped onto the reverse complement of a
\* sequence of that length, the strand inverted.
flip(loc, length) ==
    [parts |-> [k \in 1..Len(loc.parts) |->
        [start |-> length - loc.parts[k].end,
         end |-> length - loc.parts[k].start,
         strand |-> 0 - loc.parts[k].strand]]]

(***************************************************************************)
(* The MultiDiGraph: its nodes, each node's 'seq', its edges (u, v, key)    *)
(* and each edge's 'locations'.                                             *)
(***************************************************************************)

\* nx.MultiDiGraph()
EmptyGraph == [nodes |-> {}, seq |-> <<>>, edges |-> {}, locations |-> <<>>]

\* graph.add_edge(u, v, key, locations=l): an edge that is there already
\* keeps its place and takes the new locations.
add_edge(graph, u, v, key, l) ==
    LET e == <<u, v, key>>
    IN  [graph EXCEPT
            !.edges = @ \cup {e},
            !.locations = [x \in (DOMAIN @) \cup {e} |-> IF x = e THEN l ELSE @[x]]]

\* The key of an edge: f'{u}{l[0]}:{v}{l[1]}'
EdgeKey(u, v, l) ==
    ToString(u) \o LocationStr(l[1]) \o ":" \o ToString(v) \o LocationStr(l[2])

\* The four (u, v, locations) with the locations between the reverse
\* complements left as they are between the fragments (no _flip).  C6 does
\* not hold of a builder that records these.
MatchCombinationsUnflipped(match, index_first, index_secnd, first, secnd) ==
    LET x_start == match[1]
        y_start == match[2]
        length == match[3]
        locs == << shift_location(SimpleLocation(x_start, x_start + length, 1), 0, Len(first.seq)),
                   shift_location(SimpleLocation(y_start, y_start + length, 1), 0, Len(secnd.seq)) >>
    IN  << <<index_first, index_secnd, locs>>,
           <<index_secnd, index_first, Reversed(locs)>>,
           <<0 - index_first, 0 - index_secnd, locs>>,
           <<0 - index_secnd, 0 - index_first, Reversed(locs)>> >>

\* The four (u, v, locations) a match is recorded as.
MatchCombinations(match, index_first, index_secnd, first, secnd) ==
    LET x_start == match[1]
        y_start == match[2]
        length == match[3]
        locs == << shift_location(SimpleLocation(x_start, x_start + length, 1), 0, Len(first.seq)),
                   shift_location(SimpleLocation(y_start, y_start + length, 1), 0, Len(secnd.seq)) >>
        rc_locs == << flip(locs[1], Len(first.seq)), flip(locs[2], Len(secnd.seq)) >>
    IN  << <<index_first, index_secnd, locs>>,
           <<index_secnd, index_first, Reversed(locs)>>,
           <<0 - index_first, 0 - index_secnd, rc_locs>>,
           <<0 - index_secnd, 0 - index_first, Reversed(rc_locs)>> >>

\* for u, v, l in combinations: graph.add_edge(u, v, key, locations=l)
RECURSIVE AddCombinations(_, _)
AddCombinations(combinations, graph) ==
    IF combinations = <<>> THEN graph
    ELSE LET c == Head(combinations)
         IN  AddCombinations(Tail(combinations),
                 add_edge(graph, c[1], c[2], EdgeKey(c[1], c[2], c[3]), c[3]))

add_edges_from_match(match, index_first, index_secnd, first, secnd, graph) ==
    AddCombinations(MatchCombinations(match, index_first, index_secnd, first, secnd), graph)

(***************************************************************************)
(* The matcher.  It is a parameter of the facade (algorithm); what the      *)
(* builder relies on is its contract: a triple (x, y, length) says that the *)
(* length symbols from x in the first string are the length symbols from y  *)
(* in the second, and length is at least the limit.                         *)
(***************************************************************************)

\* Whether (x, y, length) is a common substring of a and b of length >= lim.
IsMatch(a, b, x, y, length, lim) ==
    /\ length >= lim
    /\ x >= 0 /\ y >= 0
    /\ x + length <= Len(a)
    /\ y + length <= Len(b)
    /\ Slice(a, x, x + length) = Slice(b, y, y + length)

\* Every triple the contract allows for the two strings.
ContractMatches(a, b, lim) ==
    {m \in (0..(Len(a) - 1)) \X (0..(Len(b) - 1)) \X (lim..Min(Len(a), Len(b))) :
        IsMatch(a, b, m[1], m[2], m[3], lim)}

\* The default matcher, common_sub_strings: the common substrings that can
\* be extended neither to the left nor to the right.
common_sub_strings(a, b, lim) ==
    {m \in ContractMatches(a, b, lim) :
        /\ ~IsMatch(a, b, m[1] - 1, m[2] - 1, m[3] + 1, lim)
        /\ ~IsMatch(a, b, m[1], m[2], m[3] + 1, lim)}

\* The positive nodes in the order itertools.combinations pairs them.
FragmentPairs(n) == {p \in (1..n) \X (1..n) : p[1] < p[2]}

\* The two strings the matcher is given for the pair (i, j): j's string is
\* reverse-complemented when the second fragment is taken in reverse (rvs).
FirstString(frags, i) == upper(frags[i].seq)

SecndString(frags, j, rvs) ==
    IF rvs THEN reverse_complement(upper(frags[j].seq)) ELSE upper(frags[j].seq)

\* Every answer the contract allows at construction: <<i, j, rvs, match>>.
AllowedAnswers(frags, lim) ==
    {a \in UNION {{<<p[1], p[2], rvs, m>> :
                     m \in ContractMatches(FirstString(frags, p[1]),
                                           SecndString(frags, p[2], rvs), lim)} :
                  p \in FragmentPairs(Len(frags)), rvs \in BOOLEAN} : TRUE}

\* The answers of the default matcher.
DefaultAnswers(frags, lim) ==
    UNION {{<<p[1], p[2], rvs, m>> :
               m \in common_sub_strings(FirstString(frags, p[1]),
                                        SecndString(frags, p[2], rvs), lim)} :
           p \in FragmentPairs(Len(frags)), rvs \in BOOLEAN}

(***************************************************************************)
(* Assembly.__init__                                                       *)
(***************************************************************************)

\* G.add_nodes_from: +i holds fragment i, -i its reverse complement.
NodesGraph(frags) ==
    LET n == Len(frags)
        nodes == (1..n) \cup {0 - i : i \in 1..n}
    IN  [EmptyGraph EXCEPT
            !.nodes = nodes,
            !.seq = [v \in nodes |-> IF v > 0 THEN frags[v]
                                     ELSE RecordReverseComplement(frags[0 - v])]]

\* The loop over the pairs and over each pair's forward and reverse matches.
RECURSIVE AddMatches(_, _)
AddMatches(answers, graph) ==
    IF answers = <<>> THEN graph
    ELSE LET a == Head(answers)
             index_first == a[1]
             index_secnd == IF a[3] THEN 0 - a[2] ELSE a[2]
             first == graph.seq[a[1]]
             secnd == graph.seq[a[2]]
         IN  AddMatches(Tail(answers),
                 add_edges_from_match(a[4], index_first, index_secnd, first, secnd, graph))

BuildGraph(frags, answers) == AddMatches(SetToSeq(answers), NodesGraph(frags))

(***************************************************************************)
(* The enumerator: validate_assembly, is_sublist, remove_subassemblies,     *)
(* get_linear_assemblies.                                                   *)
(***************************************************************************)

\* zip(a, b)
Zip(a, b) == [k \in 1..Min(Len(a), Len(b)) |-> <<a[k], b[k]>>]

\* The concatenation of a sequence of sequences: sum(lists, [])
RECURSIVE Concat(_)
Concat(lists) == IF lists = <<>> THEN <<>> ELSE Head(lists) \o Concat(Tail(lists))

\* self.G[u][v][key]['locations']
Locations(edge) == G.locations[edge]

\* The test of line 279 with > for >=: two overlaps that end at the same
\* place on the shared fragment would pass.  C7 does not hold under it.
IncompatibleStrict(left_edge, right_edge) ==
    left_edge[2].parts[Len(left_edge[2].parts)].end > right_edge[1].parts[1].end

\* The test of line 279: the left overlap ends, on the fragment the two edges
\* share, at or after the end of the right overlap.
Incompatible(left_edge, right_edge) ==
    left_edge[2].parts[Len(left_edge[2].parts)].end >= right_edge[1].parts[1].end

\* is_circular = assembly[0][0] == assembly[-1][1]
IsCircular(assembly) == assembly[1][1] = assembly[Len(assembly)][2]

\* The use_all_fragments test of line 249.
WrongFragmentCount(assembly) ==
    Len(assembly) - (IF IsCircular(assembly) THEN 1 ELSE 0) # Len(fragments) - 1

\* The pairs of consecutive edges without the pair that closes a ring.  C12
\* does not hold of a validation that leaves the closing pair untested.
EdgePairsOpen(assembly) == Zip(assembly, Tail(assembly))

\* The pairs of consecutive edges, closed into a ring for a circular assembly.
EdgePairs(assembly) ==
    IF IsCircular(assembly)
    THEN Zip(assembly, Tail(assembly) \o SubSeq(assembly, 1, 1))
    ELSE Zip(assembly, Tail(assembly))

\* validate_assembly that answers True for an assembly without edges.  C11
\* does not hold under it: the paths begin -> node -> end would be returned.
validate_assembly_accepting_empty(assembly) ==
    IF Len(assembly) = 0 THEN TRUE
    ELSE IF use_all_fragments /\ WrongFragmentCount(assembly) THEN FALSE
    ELSE \A k \in 1..Len(EdgePairs(assembly)) :
            LET pair == EdgePairs(assembly)[k]
            IN  ~Incompatible(Locations(pair[1]), Locations(pair[2]))

validate_assembly(assembly) ==
    IF Len(assembly) = 0 THEN FALSE
    ELSE IF use_all_fragments /\ WrongFragmentCount(assembly) THEN FALSE
    ELSE \A k \in 1..Len(EdgePairs(assembly)) :
            LET pair == EdgePairs(assembly)[k]
            IN  ~Incompatible(Locations(pair[1]), Locations(pair[2]))

is_sublist(sublist, my_list) ==
    LET n == Len(sublist)
    IN  \E i \in 0..(Len(my_list) - n) : SubSeq(my_list, i + 1, i + n) = sublist

\* The elements of a list whose length is n, in the order of the list.
RECURSIVE OfLength(_, _)
OfLength(list, n) ==
    IF list = <<>> THEN <<>>
    ELSE IF Len(Head(list)) = n THEN <<Head(list)>> \o OfLength(Tail(list), n)
    ELSE OfLength(Tail(list), n)

\* The lengths from n down to 0.
RECURSIVE Downto(_)
Downto(n) == IF n < 0 THEN <<>> ELSE <<n>> \o Downto(n - 1)

\* The longest length in a list of lists.
RECURSIVE MaxLen(_)
MaxLen(list) == IF list = <<>> THEN 0 ELSE Max(Len(Head(list)), MaxLen(Tail(list)))

\* The candidates left in the order they came in.  C8 does not hold of a
\* filter that skips the sort.
Unsorted(assemblies) == assemblies

\* sorted(assemblies, key=len, reverse=True): a stable sort, longest first.
SortedByLen(assemblies) ==
    LET lens == Downto(MaxLen(assemblies))
    IN  Concat([k \in 1..Len(lens) |-> OfLength(assemblies, lens[k])])

\* The loop of remove_subassemblies over the sorted list.
RECURSIVE FilterSubassemblies(_, _)
FilterSubassemblies(assemblies, filtered_assemblies) ==
    IF assemblies = <<>> THEN filtered_assemblies
    ELSE LET assembly == Head(assemblies)
         IN  IF ~(\E k \in 1..Len(filtered_assemblies) :
                      is_sublist(assembly, filtered_assemblies[k]))
             THEN FilterSubassemblies(Tail(assemblies), Append(filtered_assemblies, assembly))
             ELSE FilterSubassemblies(Tail(assemblies), filtered_assemblies)

remove_subassemblies(assemblies) == FilterSubassemblies(SortedByLen(assemblies), <<>>)

\* The nodes of a graph that are integers for networkx: all but the mock nodes.
IntNodes(graph) == graph.nodes \ {Begin, End}

\* G.add_edge(u, v): an edge without locations, under the key networkx gives it.
add_anchor_edge(graph, u, v) == [graph EXCEPT !.edges = @ \cup {<<u, v, AnchorKey>>}]

\* The anchors of the search without fragment order, whatever the flag says.
\* C5 does not hold of a search anchored so.
AnchorEdgesAnyNode(graph, fragment_order, n) ==
    {<<Begin, node>> : node \in {x \in IntNodes(graph) : x > 0}}
        \cup {<<node, End>> : node \in IntNodes(graph)}

\* The edges from 'begin' and to 'end' that lines 312-323 add.
AnchorEdges(graph, fragment_order, n) ==
    IF fragment_order
    THEN {<<Begin, 1>>, <<Begin, 0 - 1>>, <<n, End>>, <<0 - n, End>>}
    ELSE {<<Begin, node>> : node \in {x \in IntNodes(graph) : x > 0}}
         \cup {<<node, End>> : node \in IntNodes(graph)}

RECURSIVE AddAnchorEdges(_, _)
AddAnchorEdges(anchors, graph) ==
    IF anchors = <<>> THEN graph
    ELSE AddAnchorEdges(Tail(anchors), add_anchor_edge(graph, Head(anchors)[1], Head(anchors)[2]))

\* The graph the linear search runs on: the facade's graph with the two mock
\* nodes and their edges.
LinearSearchGraph(graph, fragment_order, n) ==
    AddAnchorEdges(SetToSeq(AnchorEdges(graph, fragment_order, n)),
                   [graph EXCEPT !.nodes = @ \cup {Begin, End}])

\* self.G after a search that ran on self.G itself (G = self.G): the mock
\* nodes and their edges stay.  C10 does not hold of such a search.
GraphAfterLinearSearchAliased(self_G, searched) == searched

\* self.G after get_linear_assemblies: the search ran on a copy
\* (G = MultiDiGraph(self.G)), so the facade's graph is the one it was.
GraphAfterLinearSearch(self_G, searched) == self_G

\* networkx.all_simple_edge_paths: every path of edges from node to target
\* that visits no node twice.
RECURSIVE SimpleEdgePaths(_, _, _, _)
SimpleEdgePaths(graph, node, target, visited) ==
    IF node = target THEN {<<>>}
    ELSE UNION {{<<e>> \o p : p \in SimpleEdgePaths(graph, e[2], target, visited \cup {e[2]})} :
                e \in {x \in graph.edges : x[1] = node /\ x[2] \notin visited}}

all_simple_edge_paths(graph, source, target) ==
    SetToSeq(SimpleEdgePaths(graph, source, target, {source}))

\* tuple(x[1:-1])
StripAnchors(x) == Slice(x, 1, 0 - 1)

get_linear_assemblies ==
    LET search == LinearSearchGraph(G, use_fragment_order, Len(fragments))
        paths == all_simple_edge_paths(search, Begin, End)
        stripped == [k \in 1..Len(paths) |-> StripAnchors(paths[k])]
    IN  remove_subassemblies(SelectSeq(stripped, validate_assembly))

(***************************************************************************)
(* The circular search: circular_permutation_min_abs, simple_cycles,        *)
(* cycle2circular_assemblies, get_circular_assemblies.                      *)
(***************************************************************************)

\* min(range(len(lst)), key=lambda i: abs(lst[i])): the first position (from 0)
\* of an element of least absolute value.
MinAbsIndex(lst) ==
    CHOOSE i \in 0..(Len(lst) - 1) :
        /\ \A j \in 0..(Len(lst) - 1) : Abs(lst[i + 1]) <= Abs(lst[j + 1])
        /\ \A j \in 0..(i - 1) : Abs(lst[j + 1]) > Abs(lst[i + 1])

circular_permutation_min_abs(lst) ==
    LET min_abs_index == MinAbsIndex(lst)
    IN  SliceFrom(lst, min_abs_index) \o SliceTo(lst, min_abs_index)

\* The nodes an edge of the graph leads to from v.
Successors(graph, v) == {e[2] : e \in {x \in graph.edges : x[1] = v}}

\* The simple cycles through s whose other nodes are all greater than s, as
\* lists of nodes that start with s: each cycle of the graph is found once,
\* from its least node.
RECURSIVE CyclesThrough(_, _, _)
CyclesThrough(graph, s, path) ==
    LET v == path[Len(path)]
    IN  (IF s \in Successors(graph, v) THEN {path} ELSE {})
        \cup UNION {CyclesThrough(graph, s, Append(path, w)) :
                    w \in {x \in Successors(graph, v) : x > s /\ x \notin Range(path)}}

NodeCycles(graph) == UNION {CyclesThrough(graph, s, <<s>>) : s \in graph.nodes}

\* The lists a cycle of nodes can be emitted as: networkx.simple_cycles
\* yields each cycle once, starting at a node of its own choosing.
Rotations(cycle) ==
    {SliceFrom(cycle, k) \o SliceTo(cycle, k) : k \in 0..(Len(cycle) - 1)}

\* What map(circular_permutation_min_abs, ...) can make of one cycle.
SortedRotations(cycle) == {circular_permutation_min_abs(r) : r \in Rotations(cycle)}

\* The lists that choose one element from each set of a list of sets.
RECURSIVE Choices(_)
Choices(sets) ==
    IF sets = <<>> THEN {<<>>}
    ELSE {<<x>> \o rest : x \in Head(sets), rest \in Choices(Tail(sets))}

\* Every value sorted_cycles can have at line 346.
SortedCycleLists(graph) ==
    LET cycles == SetToSeq(NodeCycles(graph))
    IN  Choices([k \in 1..Len(cycles) |-> SortedRotations(cycles[k])])

\* itertools.product(*lists), as a list.
RECURSIVE Product(_)
Product(lists) ==
    IF lists = <<>> THEN << <<>> >>
    ELSE LET rest == Product(Tail(lists))
             first == Head(lists)
         IN  Concat([i \in 1..Len(first) |->
                        [j \in 1..Len(rest) |-> <<first[i]>> \o rest[j]]])

\* [(u, v, key) for key in self.G[u][v]]
EdgesBetween(u, v) == SetToSeq({e \in G.edges : e[1] = u /\ e[2] = v})

cycle2circular_assemblies(cycle) ==
    LET hops == Zip(cycle, Tail(cycle) \o SubSeq(cycle, 1, 1))
        combine == [k \in 1..Len(hops) |-> EdgesBetween(hops[k][1], hops[k][2])]
    IN  Product(combine)

\* No filter at line 347: the cycles that start at a reversed fragment are
\* kept too.  C9 does not hold without the filter.
StartsAnywhere(x) == TRUE

\* The filter of line 347.
StartsForward(x) == x[1] > 0

\* get_circular_assemblies from line 347 on, given the sorted cycles.
CircularAssembliesOf(sorted_cycles) ==
    LET kept == SelectSeq(sorted_cycles, StartsForward)
        assemblies == Concat([k \in 1..Len(kept) |-> cycle2circular_assemblies(kept[k])])
    IN  SelectSeq(assemblies, validate_assembly)

\* Every list get_circular_assemblies can return.
get_circular_assemblies == {CircularAssembliesOf(c) : c \in SortedCycleLists(G)}

(***************************************************************************)
(* The materializer: edge_representation2subfragment_representation,        *)
(* get_assembly_subfragments, assemble.                                     *)
(***************************************************************************)

edge_representation2subfragment_representation(assembly) ==
    LET is_circular == IsCircular(assembly)
        temp == IF is_circular
                THEN SubSeq(assembly, Len(assembly), Len(assembly)) \o assembly
                ELSE << <<NoneNode, assembly[1][1], NoneKey>> >> \o assembly
                     \o << <<assembly[Len(assembly)][2], NoneNode, NoneKey>> >>
        edge_pairs == Zip(temp, Tail(temp))
    IN  [k \in 1..Len(edge_pairs) |->
            LET e1 == edge_pairs[k][1]
                e2 == edge_pairs[k][2]
                start_location == IF e1[1] = NoneNode THEN NoneLocation ELSE Locations(e1)[2]
                end_location == IF e2[2] = NoneNode THEN NoneLocation ELSE Locations(e2)[1]
            IN  <<e1[2], start_location, end_location>>]

get_assembly_subfragments(assembly_repr_fragments) ==
    [k \in 1..Len(assembly_repr_fragments) |->
        LET node == assembly_repr_fragments[k][1]
            start_location == assembly_repr_fragments[k][2]
            end_location == assembly_repr_fragments[k][3]
            seq == G.seq[node]
            start == IF start_location = NoneLocation THEN 0
                     ELSE start_location.parts[1].start
        IN  IF end_location = NoneLocation
            THEN RecordSliceFrom(seq, start)
            ELSE RecordSlice(seq, start, end_location.parts[Len(end_location.parts)].end)]

\* feature._shift(offset): every part of the feature's location moved by offset.
ShiftFeature(f, offset) ==
    [parts |-> [k \in 1..Len(f.parts) |->
        [f.parts[k] EXCEPT !.start = @ + offset, !.end = @ + offset]]]

\* The loop of lines 410-414 over zip(subfragments[1:], fragment_overlaps).
RECURSIVE JoinSubfragments(_, _)
JoinSubfragments(out_dseqrecord, joins) ==
    IF joins = <<>> THEN out_dseqrecord
    ELSE LET fragment == Head(joins)[1]
             overlap == Head(joins)[2]
             new_features == [k \in 1..Len(fragment.features) |->
                                 ShiftFeature(fragment.features[k],
                                              Len(out_dseqrecord.seq) - overlap)]
         IN  JoinSubfragments(
                 Dseqrecord(out_dseqrecord.seq \o SliceFrom(fragment.seq, overlap),
                            out_dseqrecord.features \o new_features, FALSE),
                 Tail(joins))

\* The loop closed without removing the trailing overlap, which is then in
\* the circular sequence twice.  C2 does not hold of a loop closed so.
CloseLoopUntrimmed(out_dseqrecord, overlap) ==
    Dseqrecord(out_dseqrecord.seq, out_dseqrecord.features, TRUE)

\* Lines 417-424: the trailing overlap is removed, the record is circular, and
\* a feature that runs past the end is wrapped around the origin.
CloseLoop(out_dseqrecord, overlap) ==
    LET seq == SliceTo(out_dseqrecord.seq, 0 - overlap)
        n == Len(seq)
    IN  Dseqrecord(seq,
            [k \in 1..Len(out_dseqrecord.features) |->
                LET f == out_dseqrecord.features[k]
                IN  IF f.parts[1].start >= n \/ f.parts[Len(f.parts)].end > n
                    THEN shift_location(f, 0, n)
                    ELSE f],
            TRUE)

assemble(assembly_repr_edges) ==
    LET assembly_repr_fragments ==
            edge_representation2subfragment_representation(assembly_repr_edges)
        fragment_overlaps ==
            [k \in 1..Len(assembly_repr_edges) |->
                LocationLen(Locations(assembly_repr_edges[k])[2])]
        subfragments == get_assembly_subfragments(assembly_repr_fragments)
        joined == JoinSubfragments(
                      Dseqrecord(subfragments[1].seq, subfragments[1].features, FALSE),
                      Zip(Tail(subfragments), fragment_overlaps))
    IN  IF assembly_repr_fragments[1][2] # NoneLocation
        THEN CloseLoop(joined, fragment_overlaps[Len(fragment_overlaps)])
        ELSE joined

\* The constructor: the graph of the fragments and of the matcher's answers.
AssemblyInit(frags, lim, answers, fragment_order, all_fragments) ==
    /\ fragments = frags
    /\ limit = lim
    /\ matches = answers
    /\ use_fragment_order = fragment_order
    /\ use_all_fragments = all_fragments
    /\ G = BuildGraph(frags, answers)
    /\ op = [name |-> "__init__", args |-> <<>>]
    /\ result = <<>>
    /\ product = <<>>

(***************************************************************************)
(* The inputs.                                                             *)
(***************************************************************************)

\* example_fragments
example_fragments ==
    << Dseqrecord(<<"A","a","c","g","a","t","C","A","t","g","c","t","c","c">>, <<>>, FALSE),
       Dseqrecord(<<"T","t","g","c","t","c","c","T","A","A","a","t","t","c","t","g","c">>, <<>>, FALSE),
       Dseqrecord(<<"C","a","t","t","c","t","g","c","G","A","G","G","a","c","g","a","t","G">>, <<>>, FALSE) >>

\* The limit the documented example is run with.
ExampleLimit == 5

\* The short fragments the other facades are built from, taken in turn, and
\* their limits.
FragPool ==
    << Dseqrecord(<<"A","C","G">>, <<>>, FALSE),
       Dseqrecord(<<"C","A","C">>, <<>>, FALSE) >>

ShortFragments(n) == [i \in 1..n |-> FragPool[((i - 1) % Len(FragPool)) + 1]]

LimitChoices == {1, 2}

\* A facade over short fragments: the matcher may answer with any few triples
\* its contract allows.
InitShort ==
    \E n \in 1..MaxFrags :
      \E lim \in LimitChoices :
        \E answers \in SubsetsUpTo(AllowedAnswers(ShortFragments(n), lim), MaxMatches) :
          \E fragment_order \in BOOLEAN, all_fragments \in BOOLEAN :
            AssemblyInit(ShortFragments(n), lim, answers, fragment_order, all_fragments)

\* The facade of the documented example, with the default matcher.
InitExample ==
    \E fragment_order \in BOOLEAN, all_fragments \in BOOLEAN :
      AssemblyInit(example_fragments, ExampleLimit,
                   DefaultAnswers(example_fragments, ExampleLimit),
                   fragment_order, all_fragments)

Init == InitShort \/ InitExample

(***************************************************************************)
(* The public operations.                                                  *)
(***************************************************************************)

\* What no operation assigns.
Facade == <<fragments, limit, matches, use_fragment_order, use_all_fragments>>

GetLinearAssemblies ==
    /\ result' = get_linear_assemblies
    /\ G' = GraphAfterLinearSearch(G,
                LinearSearchGraph(G, use_fragment_order, Len(fragments)))
    /\ op' = [name |-> "get_linear_assemblies", args |-> <<>>]
    /\ product' = <<>>
    /\ UNCHANGED Facade

GetCircularAssemblies ==
    /\ result' \in get_circular_assemblies
    /\ op' = [name |-> "get_circular_assemblies", args |-> <<>>]
    /\ product' = <<>>
    /\ UNCHANGED <<Facade, G>>

\* assemble, on an assembly the last enumeration returned.
Assemble ==
    /\ op.name \in {"get_linear_assemblies", "get_circular_assemblies"}
    /\ \E k \in 1..Len(result) :
         /\ product' = <<assemble(result[k])>>
         /\ op' = [name |-> "assemble", args |-> <<result[k]>>]
    /\ result' = <<>>
    /\ UNCHANGED <<Facade, G>>

AssembleLinear ==
    /\ result' = get_linear_assemblies
    /\ product' = [k \in 1..Len(result') |-> assemble(result'[k])]
    /\ G' = GraphAfterLinearSearch(G,
                LinearSearchGraph(G, use_fragment_order, Len(fragments)))
    /\ op' = [name |-> "assemble_linear", args |-> <<>>]
    /\ UNCHANGED Facade

AssembleCircular ==
    /\ result' \in get_circular_assemblies
    /\ product' = [k \in 1..Len(result') |-> assemble(result'[k])]
    /\ op' = [name |-> "assemble_circular", args |-> <<>>]
    /\ UNCHANGED <<Facade, G>>

Next ==
    \/ GetLinearAssemblies
    \/ GetCircularAssemblies
    \/ Assemble
    \/ AssembleLinear
    \/ AssembleCircular

Spec == Init /\ [][Next]_vars

(***************************************************************************)
(* What the properties below speak of.                                     *)
(***************************************************************************)

\* The last operation returned linear (circular) assemblies in result.
LinearReturned == op.name \in {"get_linear_assemblies", "assemble_linear"}

CircularReturned == op.name \in {"get_circular_assemblies", "assemble_circular"}

\* The nodes an assembly visits, in order: the source of its first edge and
\* the target of every edge; a cycle's last target is its first source again.
VisitedNodes(assembly) ==
    IF assembly[1][1] = assembly[Len(assembly)][2]
    THEN [k \in 1..Len(assembly) |-> assembly[k][1]]
    ELSE <<assembly[1][1]>> \o [k \in 1..Len(assembly) |-> assembly[k][2]]

\* How often an assembly visits fragment i, in either orientation.
Visits(assembly, i) ==
    Cardinality({k \in 1..Len(VisitedNodes(assembly)) : Abs(VisitedNodes(assembly)[k]) = i})

\* The two overlap intervals of an edge of the graph, as (start, end) on the
\* source and on the target.
SourceStart(e) == G.locations[e][1].parts[1].start
SourceEnd(e) == G.locations[e][1].parts[1].end
TargetStart(e) == G.locations[e][2].parts[1].start
TargetEnd(e) == G.locations[e][2].parts[1].end
OverlapLength(e) == TargetEnd(e) - TargetStart(e)

\* C1: with use_all_fragments, every returned assembly visits each input
\* fragment exactly once, in one of its two orientations.
C1_SpansEveryFragmentOnce ==
    (use_all_fragments /\ (LinearReturned \/ CircularReturned)) =>
        \A k \in 1..Len(result) : \A i \in 1..Len(fragments) : Visits(result[k], i) = 1

\* The assemblies the last operation materialised, in the order of product.
Materialised ==
    IF op.name = "assemble" THEN op.args
    ELSE IF op.name \in {"assemble_linear", "assemble_circular"} THEN result
    ELSE <<>>

\* The sum of f over the positions 1..n.
RECURSIVE SumOver(_, _)
SumOver(f(_), n) == IF n = 0 THEN 0 ELSE f(n) + SumOver(f, n - 1)

\* The full lengths of the fragments an assembly visits, added up.
FullLengths(assembly) ==
    LET nodes == VisitedNodes(assembly)
        full(k) == Len(G.seq[nodes[k]].seq)
    IN  SumOver(full, Len(nodes))

\* The overlap lengths of the edges of an assembly, added up.
Overlaps(assembly) ==
    LET overlap(k) == OverlapLength(assembly[k])
    IN  SumOver(overlap, Len(assembly))

\* The lengths of the stretches the visited fragments contribute: each from
\* the start of the overlap it is entered by (or its own start) to the end of
\* the overlap it is left by (or its own end).
SubfragmentLengths(assembly) ==
    LET n == Len(assembly)
        circular == assembly[1][1] = assembly[n][2]
        inner(k) == SourceEnd(assembly[k + 1]) - TargetStart(assembly[k])
    IN  IF circular
        THEN (SourceEnd(assembly[1]) - TargetStart(assembly[n])) + SumOver(inner, n - 1)
        ELSE SourceEnd(assembly[1]) + SumOver(inner, n - 1)
             + (Len(G.seq[assembly[n][2]].seq) - TargetStart(assembly[n]))

\* C2 as stated: the materialised sequence is as long as the visited
\* fragments together less the overlaps of the edges used, and a cycle gives
\* a circular record.
C2_LengthIsFullLengthsLessOverlaps ==
    \A k \in 1..Len(Materialised) :
        /\ Len(product[k].seq) = FullLengths(Materialised[k]) - Overlaps(Materialised[k])
        /\ product[k].circular = (Materialised[k][1][1] = Materialised[k][Len(Materialised[k])][2])

\* C2: the materialised sequence is as long as the stretches the visited
\* fragments contribute less the overlaps of the edges used (the closing edge
\* of a cycle among them), and a cycle gives a circular record.
C2_LengthIsSubfragmentsLessOverlaps ==
    \A k \in 1..Len(Materialised) :
        /\ Len(product[k].seq) = SubfragmentLengths(Materialised[k]) - Overlaps(Materialised[k])
        /\ product[k].circular = (Materialised[k][1][1] = Materialised[k][Len(Materialised[k])][2])

\* A cycle of two or more fragments was materialised, and a fragment lost a
\* flank outside its overlaps.
C2_Witness ==
    /\ op.name = "assemble_circular"
    /\ \E k \in 1..Len(Materialised) :
        /\ Len(Materialised[k]) >= 2
        /\ Len(product[k].seq) > 0
        /\ Len(product[k].seq) # FullLengths(Materialised[k]) - Overlaps(Materialised[k])

\* The mirror image of an edge: the edge add_edges_from_match records for the
\* same match between the reverse complements, taken the other way round.
MirrorEdge(e) ==
    LET l == <<flip(G.locations[e][2], Len(G.seq[e[2]].seq)),
               flip(G.locations[e][1], Len(G.seq[e[1]].seq))>>
    IN  <<0 - e[2], 0 - e[1], EdgeKey(0 - e[2], 0 - e[1], l)>>

\* The mirror image of an assembly: its edges mirrored, in reverse order.
Mirror(assembly) == Reversed([k \in 1..Len(assembly) |-> MirrorEdge(assembly[k])])

\* Every cycle of edges of the graph, from each of its nodes.
EdgeCycles ==
    UNION {UNION {Range(cycle2circular_assemblies(r)) : r \in Rotations(c)} :
           c \in NodeCycles(G)}

\* The same construct as a cycle of edges: its rotations and those of its
\* mirror image.
SameConstruct(cycle) == Rotations(cycle) \cup Rotations(Mirror(cycle))

\* C3: of every valid cycle of edges, get_circular_assemblies returns exactly
\* one rotation or mirrored rotation, and that one starts at a forward node
\* of the least index in the cycle.
C3_OneCanonicalRepresentative ==
    (op.name = "get_circular_assemblies") =>
        \A cycle \in {x \in EdgeCycles : validate_assembly(x)} :
            /\ Cardinality({k \in 1..Len(result) : result[k] \in SameConstruct(cycle)}) = 1
            /\ \A k \in 1..Len(result) :
                 result[k] \in SameConstruct(cycle) =>
                    /\ result[k][1][1] > 0
                    /\ \A j \in 1..Len(result[k]) : result[k][1][1] <= Abs(result[k][j][1])

\* C4: without use_fragment_order, every returned linear assembly starts at a
\* forward node, and none is returned together with its mirror image.
C4_NoMirrorImageReturned ==
    (~use_fragment_order /\ LinearReturned) =>
        \A k \in 1..Len(result) :
            /\ result[k][1][1] > 0
            /\ \A j \in 1..Len(result) : result[j] # Mirror(result[k])

\* C5: with use_fragment_order, every returned linear assembly leaves the
\* first fragment and arrives at the last, and no edge touches a mock node.
C5_FirstToLastFragment ==
    (use_fragment_order /\ LinearReturned) =>
        \A k \in 1..Len(result) :
            /\ result[k][1][1] \in {1, 0 - 1}
            /\ result[k][Len(result[k])][2] \in {Len(fragments), 0 - Len(fragments)}
            /\ \A j \in 1..Len(result[k]) :
                 {result[k][j][1], result[k][j][2]} \cap {Begin, End} = {}

\* With use_fragment_order, an assembly over three fragments was returned
\* that joins the first to the last through the second.
C5_Witness ==
    /\ use_fragment_order
    /\ op.name = "get_linear_assemblies"
    /\ Len(fragments) = 3
    /\ \E k \in 1..Len(result) : Len(result[k]) = 2

\* The left and the right node of an answer of the matcher.
LeftNode(a) == a[1]
RightNode(a) == IF a[3] THEN 0 - a[2] ELSE a[2]

\* A location is one interval inside the sequence of a node.
InsideNode(loc, node) ==
    /\ Len(loc.parts) = 1
    /\ 0 <= loc.parts[1].start
    /\ loc.parts[1].start <= loc.parts[1].end
    /\ loc.parts[1].end <= Len(G.seq[node].seq)

\* The symbols a location denotes in the sequence of a node, as the matcher
\* reads them (upper case).
Denoted(loc, node) ==
    upper(Slice(G.seq[node].seq, loc.parts[1].start, loc.parts[1].end))

\* An edge whose two locations lie inside its two nodes, have the given
\* length and denote the same symbols.
ConsistentEdge(e, length) ==
    /\ InsideNode(G.locations[e][1], e[1])
    /\ InsideNode(G.locations[e][2], e[2])
    /\ LocationLen(G.locations[e][1]) = length
    /\ LocationLen(G.locations[e][2]) = length
    /\ Denoted(G.locations[e][1], e[1]) = Denoted(G.locations[e][2], e[2])

\* C6: every answer of the matcher for (L, R) is in the graph as four edges
\* (L,R), (R,L), (-L,-R), (-R,-L) whose locations have the length of the
\* match, and the two locations of every edge lie inside its two nodes and
\* denote the same substring there.
C6_FourConsistentEdges ==
    /\ \A a \in matches :
         \A uv \in {<<LeftNode(a), RightNode(a)>>, <<RightNode(a), LeftNode(a)>>,
                    <<0 - LeftNode(a), 0 - RightNode(a)>>,
                    <<0 - RightNode(a), 0 - LeftNode(a)>>} :
            \E e \in G.edges : e[1] = uv[1] /\ e[2] = uv[2] /\ ConsistentEdge(e, a[4][3])
    /\ \A e \in G.edges : ConsistentEdge(e, LocationLen(G.locations[e][1]))

\* The matcher found, among others, an overlap of two symbols or more between
\* a fragment and the reverse complement of another.
C6_Witness ==
    /\ op.name = "__init__"
    /\ \E a \in matches : a[3] /\ a[4][3] >= 2
    /\ Cardinality(G.edges) = 8

\* C7: every returned assembly has an edge, and along it (and around it, for
\* a circular one) each overlap ends on the fragment two edges share strictly
\* before the next overlap ends there.
C7_ReturnedAssembliesAreOrdered ==
    (LinearReturned \/ CircularReturned) =>
        \A k \in 1..Len(result) :
            /\ Len(result[k]) > 0
            /\ \A j \in 1..(Len(result[k]) - 1) :
                 TargetEnd(result[k][j]) < SourceEnd(result[k][j + 1])
            /\ CircularReturned =>
                 TargetEnd(result[k][Len(result[k])]) < SourceEnd(result[k][1])

\* A circular assembly of two edges or more was returned.
C7_Witness ==
    /\ op.name = "get_circular_assemblies"
    /\ \E k \in 1..Len(result) : Len(result[k]) >= 2

\* The three edges of the documented circular assembly.
ExampleCycle ==
    << <<1, 2, "1[8:14](+):2[1:7](+)">>,
       <<2, 3, "2[10:17](+):3[1:8](+)">>,
       <<3, 1, "3[12:17](+):1[1:6](+)">> >>

\* C9: for the documented example the matcher finds the three overlaps, the
\* graph has twelve edges, and get_circular_assemblies returns the one cycle
\* 1 -> 2 -> 3 -> 1 and nothing else.
C9_ExampleHasOneCircularAssembly ==
    (fragments = example_fragments /\ limit = ExampleLimit) =>
        /\ matches = { <<1, 2, FALSE, <<8, 1, 6>>>>,
                       <<2, 3, FALSE, <<10, 1, 7>>>>,
                       <<1, 3, FALSE, <<1, 12, 5>>>> }
        /\ Cardinality(G.edges) = 12
        /\ (op.name = "get_circular_assemblies") => result = <<ExampleCycle>>

\* get_circular_assemblies has returned for the documented example.
C9_Witness ==
    /\ fragments = example_fragments
    /\ limit = ExampleLimit
    /\ op.name = "get_circular_assemblies"
    /\ Len(result) = 1

\* The signed nodes of n fragments.
SignedNodes(n) == (1..n) \cup {0 - i : i \in 1..n}

\* C10: no operation changes the facade or its graph (nodes, sequences,
\* edges, keys, locations); the nodes of the graph are the 2n signed nodes,
\* never a mock node; and what an enumeration has returned is what the
\* enumeration gives for the graph as it is after the call, so that a
\* repeated call finds the graph, and with it the result, of the first.
C10_GraphIsReadOnly ==
    /\ [](G.nodes = SignedNodes(Len(fragments)))
    /\ []((op.name = "get_linear_assemblies") => result = get_linear_assemblies)
    /\ []((op.name = "get_circular_assemblies") => result \in get_circular_assemblies)
    /\ [][G' = G /\ Facade' = Facade]_vars

\* An assembly of two edges was materialised on a facade of three fragments
\* with use_fragment_order, after enumerations had run on it.
C10_Witness ==
    /\ op.name = "assemble"
    /\ Len(op.args[1]) = 2
    /\ use_fragment_order
    /\ G.nodes = SignedNodes(3)

(***************************************************************************)
(* remove_subassemblies on its own: the filter is a public method, and the  *)
(* candidates it is given are any list of paths of edges.                   *)
(***************************************************************************)

\* The longest list of candidates the filter is given.
MaxCandidates == 3

\* A graph to take candidate paths from: a chain of four nodes.
CandidateGraph ==
    [EmptyGraph EXCEPT
        !.nodes = 1..4,
        !.edges = { <<1, 2, "1[2:3](+):2[0:1](+)">>, <<2, 3, "2[2:3](+):3[0:1](+)">>,
                    <<3, 4, "3[2:3](+):4[0:1](+)">> }]

\* Every path of edges of that graph between two of its nodes.
CandidatePaths ==
    UNION {SimpleEdgePaths(CandidateGraph, st[1], st[2], {st[1]}) :
           st \in {x \in CandidateGraph.nodes \X CandidateGraph.nodes : x[1] # x[2]}}

\* Every list of at most n candidates: any paths, in any order, repeated or not.
RECURSIVE CandidateLists(_)
CandidateLists(n) ==
    IF n = 0 THEN {<<>>}
    ELSE LET shorter == CandidateLists(n - 1)
         IN  shorter \cup {Append(l, c) : l \in shorter, c \in CandidatePaths}

\* A facade of one fragment, whose graph has no edge.
InitFilter == AssemblyInit(ShortFragments(1), 1, {}, FALSE, FALSE)

RemoveSubassemblies ==
    /\ \E assemblies \in CandidateLists(MaxCandidates) :
         /\ result' = remove_subassemblies(assemblies)
         /\ op' = [name |-> "remove_subassemblies", args |-> <<assemblies>>]
    /\ product' = <<>>
    /\ UNCHANGED <<Facade, G>>

NextFilter == RemoveSubassemblies

SpecFilter == InitFilter /\ [][NextFilter]_vars

\* a is a run of consecutive elements of b.
Contiguous(a, b) ==
    \E o \in 0..(Len(b) - Len(a)) : \A k \in 1..Len(a) : b[o + k] = a[k]

\* C8: of the assemblies remove_subassemblies returns, none is a run of
\* consecutive edges of another one, and none is returned twice, whatever
\* the candidates and their order.
C8_NoSubassemblyReturned ==
    (op.name = "remove_subassemblies") =>
        \A i \in 1..Len(result) : \A j \in 1..Len(result) :
            i # j => ~Contiguous(result[i], result[j])

\* The candidates were a path, then a longer path that contains it, then the
\* first path again; only the longer one was returned.
C8_Witness ==
    /\ op.name = "remove_subassemblies"
    /\ Len(op.args[1]) = 3
    /\ Len(op.args[1][1]) < Len(op.args[1][2])
    /\ Contiguous(op.args[1][1], op.args[1][2])
    /\ op.args[1][3] = op.args[1][1]
    /\ result = <<op.args[1][2]>>

\* C11: when the matcher found nothing, the graph has its 2n nodes and no
\* edge, every enumeration returns the empty list, assemble_linear and
\* assemble_circular return the empty list, and assemble is never called:
\* the paths begin -> node -> end, which are empty once the mock edges are
\* stripped, are not returned.
C11_NoMatchNoAssembly ==
    (matches = {}) =>
        /\ G.edges = {}
        /\ G.nodes = SignedNodes(Len(fragments))
        /\ result = <<>>
        /\ product = <<>>
        /\ op.name # "assemble"

\* Without any match, the linear enumeration has run with mock edges from
\* 'begin' to the first fragment and from the last fragment to 'end', which
\* for one fragment make the two paths begin -> 1 -> end and begin -> -1 -> end.
C11_Witness ==
    /\ matches = {}
    /\ Len(fragments) = 1
    /\ use_fragment_order
    /\ op.name = "assemble_linear"
    /\ Cardinality(SimpleEdgePaths(LinearSearchGraph(G, use_fragment_order, 1),
                                   Begin, End, {Begin})) = 2

\* Every path of edges of the graph between two of its nodes.
EdgePaths ==
    UNION {SimpleEdgePaths(G, st[1], st[2], {st[1]}) :
           st \in {x \in G.nodes \X G.nodes : x[1] # x[2]}}

\* The paths and the cycles of the graph that validate_assembly accepts.
AcceptedAssemblies == {a \in EdgePaths \cup EdgeCycles : validate_assembly(a)}

\* The subfragments assemble joins for an assembly.
Subfragments(a) ==
    get_assembly_subfragments(edge_representation2subfragment_representation(a))

\* The edge whose overlap is on the left of the k-th subfragment: the edge
\* before it, and for the first subfragment of a cycle the closing edge.
LeftEdge(a, k) == IF k = 1 THEN a[Len(a)] ELSE a[k - 1]

\* The subfragments of an assembly that have a left overlap.
WithLeftOverlap(a) ==
    IF IsCircular(a) THEN 1..Len(Subfragments(a)) ELSE 2..Len(Subfragments(a))

\* Around a cycle: from the end of each edge's overlap on its target to the
\* end of the next edge's overlap on that fragment, added up.
CycleLength(a) ==
    LET step(k) == SourceEnd(a[(k % Len(a)) + 1]) - TargetEnd(a[k])
    IN  SumOver(step, Len(a))

\* What C12 says of a cycle: what is left after the closing overlap is
\* trimmed is not empty, and is as long as the steps around the cycle.
CycleWellFormed(a) ==
    IsCircular(a) =>
        /\ assemble(a).circular
        /\ Len(assemble(a).seq) > 0
        /\ Len(assemble(a).seq) = CycleLength(a)

\* C12 as stated: for every accepted assembly, every subfragment with a
\* left overlap is strictly longer than that overlap, no subfragment is
\* empty, and a cycle is well formed.
C12_EveryJoinAppends ==
    \A a \in AcceptedAssemblies :
        /\ \A k \in WithLeftOverlap(a) :
             Len(Subfragments(a)[k].seq) > OverlapLength(LeftEdge(a, k))
        /\ \A k \in 1..Len(Subfragments(a)) : Len(Subfragments(a)[k].seq) > 0
        /\ CycleWellFormed(a)

\* C12: for every accepted assembly, every subfragment with a left overlap
\* is at least as long as that overlap, and strictly longer if it has a
\* right overlap too (every one but the last of a linear assembly); no
\* subfragment is empty; and a cycle is well formed.
C12_EveryInnerJoinAppends ==
    \A a \in AcceptedAssemblies :
        /\ \A k \in WithLeftOverlap(a) :
             /\ Len(Subfragments(a)[k].seq) >= OverlapLength(LeftEdge(a, k))
             /\ (IsCircular(a) \/ k < Len(Subfragments(a))) =>
                    Len(Subfragments(a)[k].seq) > OverlapLength(LeftEdge(a, k))
        /\ \A k \in 1..Len(Subfragments(a)) : Len(Subfragments(a)[k].seq) > 0
        /\ CycleWellFormed(a)

\* A linear assembly of two edges was materialised whose last overlap
\* reaches the end of the last fragment, so that the last join appended
\* nothing.
C12_Witness ==
    /\ op.name = "assemble"
    /\ Len(op.args[1]) = 2
    /\ ~IsCircular(op.args[1])
    /\ Len(Subfragments(op.args[1])[3].seq) = OverlapLength(op.args[1][2])
    /\ Len(product[1].seq) = Len(Subfragments(op.args[1])[1].seq)
                                + Len(Subfragments(op.args[1])[2].seq)
                                - OverlapLength(op.args[1][1])

====
